---- MODULE Spec2Model ----
(***************************************************************************)
(* Model of the vision-driven Android test runner:                         *)
(*   VisionAgent      (vision_agent.py)      run_test_case, _execute_step, *)
(*                                           _intelligent_locate           *)
(*   ScreenParser     (screen_parser.py)     query, locate,                *)
(*                                           get_navigation_suggestion     *)
(*   DeviceController (device_controller.py) capture_screen,               *)
(*                                           perform_action, conversions   *)
(*   StatsTracker     (stats_tracker.py)     the counters                  *)
(* Python strings are TLA+ strings handled character by character (Len,    *)
(* SubSeq, \o).  Optional values are <<>> (None) or <<v>> (a value).       *)
(***************************************************************************)
EXTENDS Integers, Sequences, FiniteSets, TLC

(***************************************************************************)
(* Python string primitives.                                               *)
(***************************************************************************)
None == <<>>

Some(v) == <<v>>

UpperChars == "ABCDEFGHIJKLMNOPQRSTUVWXYZ"

LowerChars == "abcdefghijklmnopqrstuvwxyz"

DigitChars == "0123456789"

Whitespace == {" ", "\t", "\n", "\r"}

\* 1-based position of the first occurrence of sub in s, 0 when absent
\* (str.find + 1).
Find(sub, s) ==
  LET hits == {i \in 1..(Len(s) - Len(sub) + 1) : SubSeq(s, i, i + Len(sub) - 1) = sub}
  IN  IF hits = {} THEN 0 ELSE CHOOSE i \in hits : \A j \in hits : i <= j

\* str.lower() of one character.
LowerChar(c) ==
  LET p == Find(c, UpperChars)
  IN  IF Len(c) = 1 /\ p # 0 THEN SubSeq(LowerChars, p, p) ELSE c

RECURSIVE LowerOf(_)
\* str.lower(), character by character.
LowerOf(s) ==
  IF s = "" THEN "" ELSE LowerChar(SubSeq(s, 1, 1)) \o LowerOf(SubSeq(s, 2, Len(s)))

RECURSIVE LStrip(_)
LStrip(s) ==
  IF s # "" /\ SubSeq(s, 1, 1) \in Whitespace THEN LStrip(SubSeq(s, 2, Len(s))) ELSE s

RECURSIVE RStrip(_)
RStrip(s) ==
  IF s # "" /\ SubSeq(s, Len(s), Len(s)) \in Whitespace
  THEN RStrip(SubSeq(s, 1, Len(s) - 1)) ELSE s

\* str.strip().
Strip(s) == RStrip(LStrip(s))

RECURSIVE Replace(_, _, _)
\* str.replace(old, new) for a non-empty old: every non-overlapping
\* occurrence, scanning from the left.
Replace(s, old, new) ==
  LET p == Find(old, s)
  IN  IF p = 0 THEN s
      ELSE SubSeq(s, 1, p - 1) \o new \o Replace(SubSeq(s, p + Len(old), Len(s)), old, new)

\* The steps a test case is made of in the run specifications.
StepPool ==
  {"scroll down", "scroll up", "wait 1", "wait 1 second", "click search icon",
   "type hello world and press enter"}

\* The answers the vision service gives to the navigation question ("" is a
\* response without an answer field).
AnswerPool ==
  {"", "scroll down", " Scroll Up ", "press back", "click settings",
   "not possible", "It is not possible to scroll", "no idea"}

\* The words the keyword tests of the program look for.
Vocabulary ==
  {"type", "input", "enter", "scroll", "swipe", "up", "left", "right", "press",
   "back", "home", "wait", "click", "not possible", "type ", "input ", "enter ",
   "text "}

\* The lowered texts of the pools, computed once: str.lower() and `in` on
\* the texts that recur in every run.
PoolTexts == StepPool \cup AnswerPool \cup {Strip(a) : a \in AnswerPool}

LowerTable == [s \in PoolTexts |-> LowerOf(s)] @@ <<>>

\* str.lower().
Lower(s) == IF s \in DOMAIN LowerTable THEN LowerTable[s] ELSE LowerOf(s)

ContainsTable ==
  [q \in Vocabulary \X {Lower(s) : s \in PoolTexts} |-> Find(q[1], q[2]) # 0] @@ <<>>

\* Python's `sub in s`.
Contains(sub, s) ==
  IF <<sub, s>> \in DOMAIN ContainsTable THEN ContainsTable[<<sub, s>>]
  ELSE Find(sub, s) # 0

\* any(cmd in s for cmd in cmds)
AnyIn(cmds, s) == \E cmd \in cmds : Contains(cmd, s)

\* Truthiness of an Optional[str]: None and "" are falsy.
Truthy(opt) == opt # None /\ opt[1] # ""

(***************************************************************************)
(* DeviceController: text and wait-time extraction, keyword dispatch.      *)
(***************************************************************************)
ExtractKeywords == <<"type ", "input ", "enter ", "text ">>

\* The phrases _extract_text removes.
StripPhrases == <<" and press enter", " and send">>

\* _extract_text: the first keyword of the list that occurs in the lowered
\* step decides; the text after its first occurrence is stripped, the two
\* phrases are removed with str.replace, and the result is stripped again.
\* None when no keyword occurs.
ExtractText(step) ==
  LET low  == Lower(step)
      hits == {k \in 1..Len(ExtractKeywords) : Contains(ExtractKeywords[k], low)}
  IN  IF hits = {} THEN None
      ELSE LET k    == CHOOSE i \in hits : \A j \in hits : i <= j
               kw   == ExtractKeywords[k]
               idx  == Find(kw, low) + Len(kw)
               text == Strip(SubSeq(step, idx, Len(step)))
           IN  Some(Strip(Replace(Replace(text, StripPhrases[1], ""), StripPhrases[2], "")))

RECURSIVE SkipWhile(_, _, _)
\* The first position >= i of s whose character is not in chars
\* (Len(s) + 1 when there is none).
SkipWhile(s, i, chars) ==
  IF i <= Len(s) /\ SubSeq(s, i, i) \in chars THEN SkipWhile(s, i + 1, chars) ELSE i

Digits == {SubSeq(DigitChars, i, i) : i \in 1..10}

RECURSIVE ParseInt(_)
\* int() of a string of decimal digits.
ParseInt(d) ==
  IF d = "" THEN 0
  ELSE 10 * ParseInt(SubSeq(d, 1, Len(d) - 1)) + (Find(SubSeq(d, Len(d), Len(d)), DigitChars) - 1)

DefaultWaitSeconds == 2

\* _extract_wait_time: re.search(r'wait\s+(\d+)', step.lower()), the
\* leftmost match; 2.0 when there is none.  Whole seconds.
ExtractWaitTime(step) ==
  LET low  == Lower(step)
      ok(i) == /\ SubSeq(low, i, i + 3) = "wait"
               /\ SkipWhile(low, i + 4, Whitespace) > i + 4
               /\ SkipWhile(low, SkipWhile(low, i + 4, Whitespace), Digits)
                    > SkipWhile(low, i + 4, Whitespace)
      hits == {i \in 1..(Len(low) - 3) : ok(i)}
  IN  IF hits = {} THEN DefaultWaitSeconds
      ELSE LET i == CHOOSE h \in hits : \A j \in hits : h <= j
               a == SkipWhile(low, i + 4, Whitespace)
               b == SkipWhile(low, a, Digits)
           IN  ParseInt(SubSeq(low, a, b - 1))

\* DefaultClick tapping whether or not coordinates were given.
DefaultClickAlways(pixel_coords) ==
  [prim |-> "click", arg |-> IF pixel_coords # None THEN pixel_coords[1] ELSE <<0, 0>>]

\* The default branch of perform_action: a click at the coordinates, if any.
DefaultClick(pixel_coords) ==
  IF pixel_coords # None
  THEN [prim |-> "click", arg |-> pixel_coords[1]]
  ELSE [prim |-> "none", arg |-> ""]

\* The primitive perform_action dispatches step to, with its argument:
\* prim "none" is the `return False` that touches no primitive.
\* pixel_coords is None or Some(<<px, py>>).
Dispatch(step, pixel_coords) ==
  LET low == Lower(step)
  IN  IF Contains("type", low) \/ Contains("input", low) \/ Contains("enter", low)
      THEN LET text == ExtractText(step)
           IN  IF Truthy(text) THEN [prim |-> "type_text", arg |-> text[1]]
               ELSE [prim |-> "none", arg |-> ""]
      ELSE IF Contains("scroll", low) \/ Contains("swipe", low)
      THEN [prim |-> "scroll",
            arg  |-> IF Contains("up", low) THEN "up"
                     ELSE IF Contains("left", low) THEN "left"
                     ELSE IF Contains("right", low) THEN "right"
                     ELSE "down"]
      ELSE IF Contains("press", low) \/ Contains("back", low)
      THEN IF Contains("back", low) THEN [prim |-> "press_key", arg |-> "back"]
           ELSE IF Contains("home", low) THEN [prim |-> "press_key", arg |-> "home"]
           ELSE IF Contains("enter", low) THEN [prim |-> "press_key", arg |-> "enter"]
           ELSE [prim |-> "none", arg |-> ""]
      ELSE IF Contains("wait", low)
      THEN [prim |-> "wait", arg |-> ExtractWaitTime(step)]
      ELSE DefaultClick(pixel_coords)

(***************************************************************************)
(* Coordinates.  A normalized coordinate is the dyadic fraction n / Den    *)
(* (exactly representable as a float, so that x * width is exact); a point *)
(* is the record of the two numerators.                                    *)
(***************************************************************************)
DenBits == 2

Den == 2 ^ DenBits

Coord == 0..Den

Points == [x : Coord, y : Coord]

\* The points a located element is drawn from in the run specifications.
DiagonalPoints == {p \in Points : p.x = p.y /\ p.x \in {0, Den \div 2, Den}}

\* A point of two numbers that int() cannot convert (NaN, infinity): locate
\* returns it like any point, the conversion to pixels raises.  It is kept
\* apart from the dyadic points by a numerator outside Coord.
NaNPoint == [x |-> -1, y |-> -1]

\* int(x * size) for the float x = n / Den >= 0: truncation, no clamping.
ToPixel(n, size) == (n * size) \div Den

\* convert_normalized_to_pixels(x, y) on a screen of width by height pixels.
ConvertNormalizedToPixels(p, width, height) ==
  <<ToPixel(p.x, width), ToPixel(p.y, height)>>

DefaultScreenWidth == 1080

DefaultScreenHeight == 2400

(***************************************************************************)
(* StatsTracker.                                                           *)
(***************************************************************************)
\* StatsTracker.__init__; the two marks are "unset" (None) or "set".
InitStats ==
  [moondream_query_calls |-> 0, moondream_point_calls |-> 0,
   moondream_reasoning_calls |-> 0, actions_performed |-> 0,
   successful_actions |-> 0, failed_actions |-> 0, auto_navigations |-> 0,
   moondream_detections |-> 0, uiautomator_detections |-> 0,
   start_time |-> "unset", end_time |-> "unset"]

\* StartTest beginning every test from a cleared tracker.
StartTestResets(st) == [InitStats EXCEPT !.start_time = "set"]

StartTest(st) == [st EXCEPT !.start_time = "set"]

EndTest(st) == [st EXCEPT !.end_time = "set"]

RecordQueryCall(st) == [st EXCEPT !.moondream_query_calls = @ + 1]

RecordPointCall(st) == [st EXCEPT !.moondream_point_calls = @ + 1]

RecordReasoningCall(st) == [st EXCEPT !.moondream_reasoning_calls = @ + 1]

\* RecordAction leaving a failure out of the failed counter.
RecordActionDropsFailure(st, success) ==
  IF success
  THEN [st EXCEPT !.actions_performed = @ + 1, !.successful_actions = @ + 1]
  ELSE [st EXCEPT !.actions_performed = @ + 1]

\* record_action: the total and one of the two outcome counters.
RecordAction(st, success) ==
  IF success
  THEN [st EXCEPT !.actions_performed = @ + 1, !.successful_actions = @ + 1]
  ELSE [st EXCEPT !.actions_performed = @ + 1, !.failed_actions = @ + 1]

RecordNavigation(st) == [st EXCEPT !.auto_navigations = @ + 1]

RecordDetection(st, source) ==
  IF source = "moondream" THEN [st EXCEPT !.moondream_detections = @ + 1]
  ELSE IF source = "uiautomator" THEN [st EXCEPT !.uiautomator_detections = @ + 1]
  ELSE st

\* Reset leaving the start and end marks as they are.
ResetKeepsMarks(st) ==
  [InitStats EXCEPT !.start_time = st.start_time, !.end_time = st.end_time]

\* reset: __init__ again.
Reset(st) == InitStats

\* The counters get_summary reports.
Summary(st) ==
  [total |-> st.actions_performed, successful |-> st.successful_actions,
   failed |-> st.failed_actions, moondream_query |-> st.moondream_query_calls,
   moondream_point |-> st.moondream_point_calls,
   moondream_reasoning |-> st.moondream_reasoning_calls,
   api_total |-> st.moondream_query_calls + st.moondream_point_calls,
   detections |-> st.moondream_detections + st.uiautomator_detections,
   auto_navigations |-> st.auto_navigations]

(***************************************************************************)
(* Vocabulary of the orchestrator and of the vision client.                *)
(***************************************************************************)
\* NonVisualCommands without the wait command.
NonVisualCommandsNoWait == {"scroll", "swipe", "back", "home"}

\* _execute_step: the commands that need no location.
NonVisualCommands == {"scroll", "swipe", "back", "home", "wait"}

IsNonVisual(step) == AnyIn(NonVisualCommands, Lower(step))

\* An answer that is truthy and not a string (a number, a list): query
\* returns it as it is, answer.strip() raises AttributeError.  Written as a
\* token that no text of the pools equals.
NonString == "<42>"

\* get_navigation_suggestion: the answers accepted as an action.
NavigationCommands == {"scroll", "click", "press", "swipe", "not possible"}

\* get_navigation_suggestion after query returned answer (None or Some(text)):
\* the action returned, None when the answer is falsy or names no command.
NavigationAction(answer) ==
  IF Truthy(answer)
  THEN LET action == Lower(Strip(answer[1]))
       IN  IF AnyIn(NavigationCommands, action) THEN Some(action) ELSE None
  ELSE None

\* ShouldNavigate dispatching every suggestion that is given.
ShouldNavigateAnyAction(action) == Truthy(action)

\* _intelligent_locate: `action and "not possible" not in action`.
ShouldNavigate(action) == Truthy(action) /\ ~Contains("not possible", action[1])

\* The request attempts one query or locate call may make.
MaxAttempts == 3

\* RetryAgain allowing a retry after the third attempt too.
RetryAgainInclusive(retry) == retry <= MaxAttempts

\* The except branch of query and locate: another attempt is made.
RetryAgain(retry) == retry < MaxAttempts

DefaultMaxRetries == 3

(***************************************************************************)
(* State.                                                                  *)
(***************************************************************************)
VARIABLES
  run,               \* per invocation of run_test_case: its locals and position
  stats,             \* the agent's StatsTracker
  intelligent_mode,  \* VisionAgent.intelligent_mode
  max_retries,       \* the max_retries parameter of _intelligent_locate
  screen_width,      \* DeviceController.screen_width
  screen_height,     \* DeviceController.screen_height
  shot,              \* the file at screenshot_path: who captured it, and
                     \* whether the device was acted on since
  env,               \* what the environment may still do: runs to start,
                     \* steps to send, request errors to raise, locate
                     \* requests to answer with nothing found, responses
                     \* that break the wire contract, query_screen and
                     \* reset calls to make, the values of the execute
                     \* flag the callers send, and whether the calls of a
                     \* run and the replies to them are kept
  probe              \* a pure function under test: its input and output

vars == <<run, stats, intelligent_mode, max_retries, screen_width, screen_height,
          shot, env, probe>>

RunIds == {"r1", "r2"}

\* Bounds of the environment.
MaxSteps == 2

\* Request errors the vision service raises during a run of several steps,
\* and during a run of one step.
RunFaults == 1

\* Locate calls that find nothing during a run of several steps.
RunMisses == 1

CallFaults == 3

\* Responses that break the wire contract during a run.
RunMalformed == 1

MaxRetriesBound == 4

\* A caller's session: its runs, one after the other, and the query_screen
\* and reset calls it makes between them.
SessionRuns == 2

SessionQueries == 1

SessionResets == 1

RECURSIVE SeqsUpTo(_, _)
\* The sequences over S of length at most n.
SeqsUpTo(S, n) ==
  IF n = 0 THEN {<<>>}
  ELSE LET shorter == SeqsUpTo(S, n - 1)
       IN  shorter \cup {Append(q, e) : q \in {t \in shorter : Len(t) = n - 1}, e \in S}

NoShot == [by |-> "none", fresh |-> FALSE]

\* The locals of run_test_case, _execute_step and _intelligent_locate, the
\* vision call in flight (retry, ret) and what the run has issued so far:
\*   order     the indices of the steps _execute_step was called for
\*   outs      the outcomes of the request attempts of the vision call
\*             ("raised", or the kind of response returned)
\*   n_locate, n_navq, n_navd, n_capture
\*             locate calls, navigation queries, navigation dispatches and
\*             captures issued for the current step
\*   prims     the device primitives perform_action invoked for the step
\*   stats0    the summary when the run started
\*   returns   what _execute_step returned, step by step
\*   declined  the last navigation suggestion was absent or "not possible"
\*   dev_ok    no capture and no device primitive of the run has failed
\*   seen      the screenshot the last request attempt of the vision call
\*             read from screenshot_path
\*   no_shot   the capture at the start of the current step failed
\*   caught    an exception reached the except clause of _execute_step
\*   raising   an exception is leaving, or has left, run_test_case
\*   prev      the statistics of the result of the caller's previous run
\*   test_json the test case run_test_case was called with
\*   calls     the calls the run made to the device and the vision client
\*   replies   what the device and the vision service answered, call by call
\*   twin      the caller's previous run: its test case, calls, replies and
\*             result (the statistics as counts of that run)
IdleRun ==
  [pc |-> "idle", steps |-> <<>>, idx |-> 0, completed_steps |-> 0,
   failed_step |-> None, result |-> None, step |-> "", coords |-> None,
   pixel_coords |-> None, success |-> FALSE, attempt |-> 0, action |-> None,
   retry |-> 0, ret |-> None, outs |-> <<>>, order |-> <<>>,
   n_locate |-> 0, n_navq |-> 0, n_navd |-> 0, n_capture |-> 0,
   prims |-> <<>>, stats0 |-> Summary(InitStats), returns |-> <<>>,
   declined |-> FALSE, dev_ok |-> TRUE, seen |-> NoShot, no_shot |-> FALSE, caught |-> FALSE,
   raising |-> FALSE, prev |-> None,
   test_json |-> [steps |-> <<>>, execute |-> TRUE], calls |-> <<>>,
   replies |-> <<>>, twin |-> None]

OffRun == [IdleRun EXCEPT !.pc = "off"]

NoProbe == [fn |-> "none", in |-> <<>>, out |-> None]

\* A freshly constructed agent with one caller, the default max_retries and
\* the default screen.
InitAgent ==
  /\ stats = InitStats
  /\ intelligent_mode \in BOOLEAN
  /\ screen_width = DefaultScreenWidth
  /\ screen_height = DefaultScreenHeight
  /\ shot = NoShot
  /\ probe = NoProbe
  /\ run = [r \in RunIds |-> IF r = "r1" THEN IdleRun ELSE OffRun]

Init ==
  /\ InitAgent
  /\ max_retries = DefaultMaxRetries
  /\ env = [runs_left |-> 1, max_len |-> MaxSteps, pool |-> StepPool,
            faults_left |-> RunFaults, misses_left |-> RunMisses,
            malformed_left |-> 0, queries_left |-> 0,
            resets_left |-> 0, flags |-> {TRUE}, traced |-> FALSE]

\* The steps of the two concurrent runs.
RacePool == {"click search icon", "scroll down"}

\* Two callers of the one agent, a run of at most one step each.
InitRace ==
  /\ stats = InitStats
  /\ intelligent_mode \in BOOLEAN
  /\ max_retries = DefaultMaxRetries
  /\ screen_width = DefaultScreenWidth
  /\ screen_height = DefaultScreenHeight
  /\ shot = NoShot
  /\ probe = NoProbe
  /\ run = [r \in RunIds |-> IdleRun]
  /\ env = [runs_left |-> Cardinality(RunIds), max_len |-> 1,
            pool |-> RacePool, faults_left |-> 0, misses_left |-> RunMisses,
            malformed_left |-> 0, queries_left |-> 0,
            resets_left |-> 0, flags |-> {TRUE}, traced |-> FALSE]

\* The same with a vision service that may break its wire contract.
InitFaulty ==
  /\ InitAgent
  /\ max_retries = DefaultMaxRetries
  /\ env = [runs_left |-> 1, max_len |-> MaxSteps, pool |-> StepPool,
            faults_left |-> RunFaults, misses_left |-> RunMisses,
            malformed_left |-> RunMalformed, queries_left |-> 0,
            resets_left |-> 0, flags |-> {TRUE}, traced |-> FALSE]

\* One visual or non-visual step, any max_retries >= 1.
InitNav ==
  /\ InitAgent
  /\ max_retries \in 1..MaxRetriesBound
  /\ env = [runs_left |-> 1, max_len |-> 1, pool |-> StepPool,
            faults_left |-> CallFaults, misses_left |-> max_retries,
            malformed_left |-> 0, queries_left |-> 0,
            resets_left |-> 0, flags |-> {TRUE}, traced |-> FALSE]

Set(r, rec) == run' = [run EXCEPT ![r] = rec]

(***************************************************************************)
(* run_test_case and _execute_step.                                        *)
(***************************************************************************)
\* TestSteps taking execute = false as a dry run that executes no step.
TestStepsDryRun(test_json) ==
  IF test_json.execute THEN test_json.steps ELSE <<>>

\* run_test_case reads the steps of the test case (and its app_name, for
\* the banner): test_json.get("steps", []).
TestSteps(test_json) == test_json.steps

\* The counts of a run alone: its result's statistics less the snapshot
\* taken when it started.
OwnCounts(rec) ==
  [f \in DOMAIN rec.stats0 |-> rec.result[1].statistics[f] - rec.stats0[f]]

\* What is kept of a finished run for the comparison with the next one.
Kept(rec) ==
  IF env.traced /\ rec.pc = "done" /\ rec.result # None
  THEN Some([test_json |-> rec.test_json, calls |-> rec.calls,
             replies |-> rec.replies,
             result |-> [rec.result[1] EXCEPT !.statistics = OwnCounts(rec)]])
  ELSE None

\* The run called a collaborator and got a reply.
Logged(rec, call, reply) ==
  IF env.traced
  THEN [rec EXCEPT !.calls = Append(@, call), !.replies = Append(@, reply)]
  ELSE rec

\* The collaborators answer the run as they answered the caller's previous
\* run of the same steps, call by call, as far as that run got.
Replayed(rec, reply) ==
  ( /\ env.traced /\ rec.twin # None
    /\ rec.twin[1].test_json.steps = rec.test_json.steps
    /\ Len(rec.replies) < Len(rec.twin[1].replies) )
  => reply = rec.twin[1].replies[Len(rec.replies) + 1]

\* StartRun behind a lock: a run starts only when no other run is under way.
StartRunSerialized(r) ==
  /\ run[r].pc \in {"idle", "done"}
  /\ \A q \in RunIds \ {r} : run[q].pc \in {"off", "idle", "done"}
  /\ env.runs_left > 0
  /\ \E test_json \in [steps : SeqsUpTo(env.pool, env.max_len), execute : env.flags] :
       LET steps == TestSteps(test_json)
       IN  Set(r, [IdleRun EXCEPT
                     !.pc = IF steps = <<>> THEN "finish" ELSE "capture",
                     !.steps = steps,
                     !.idx = IF steps = <<>> THEN 0 ELSE 1,
                     !.stats0 = Summary(stats),
                     !.prev = IF run[r].result = None THEN None
                              ELSE Some(run[r].result[1].statistics),
                     !.test_json = test_json,
                     !.twin = Kept(run[r])])
  /\ stats' = StartTest(stats)
  /\ env' = [env EXCEPT !.runs_left = @ - 1]
  /\ UNCHANGED <<intelligent_mode, max_retries, screen_width, screen_height, shot, probe>>

\* run_test_case is called with a test case: start_test, the locals, and the
\* first iteration of the loop (or none for an empty list).
StartRun(r) ==
  /\ run[r].pc \in {"idle", "done"}
  /\ env.runs_left > 0
  /\ \E test_json \in [steps : SeqsUpTo(env.pool, env.max_len), execute : env.flags] :
       LET steps == TestSteps(test_json)
       IN  Set(r, [IdleRun EXCEPT
                     !.pc = IF steps = <<>> THEN "finish" ELSE "capture",
                     !.steps = steps,
                     !.idx = IF steps = <<>> THEN 0 ELSE 1,
                     !.stats0 = Summary(stats),
                     !.prev = IF run[r].result = None THEN None
                              ELSE Some(run[r].result[1].statistics),
                     !.test_json = test_json,
                     !.twin = Kept(run[r])])
  /\ stats' = StartTest(stats)
  /\ env' = [env EXCEPT !.runs_left = @ - 1]
  /\ UNCHANGED <<intelligent_mode, max_retries, screen_width, screen_height, shot, probe>>

\* A vision call starts: first attempt, nothing returned yet.
CallVision(rec, pc) == [rec EXCEPT !.pc = pc, !.retry = 1, !.ret = None, !.outs = <<>>]

\* _basic_locate or _intelligent_locate returns coords to _execute_step; its
\* locals and those of the vision call are gone.
ReturnCoords(rec, coords) ==
  [rec EXCEPT !.pc = "resolved", !.coords = coords, !.retry = 0, !.ret = None,
              !.outs = <<>>, !.attempt = 0, !.action = None, !.seen = NoShot]

\* _execute_step returns success to run_test_case; its locals are gone.
ReturnSuccess(rec, success) ==
  [rec EXCEPT !.pc = "step_ret", !.success = success, !.coords = None,
              !.pixel_coords = None, !.returns = Append(@, success), !.seen = NoShot]

\* OnStepError without the except clause: the exception leaves
\* _execute_step and unwinds run_test_case through its finally clause.
OnStepErrorPropagates(rec) ==
  [rec EXCEPT !.pc = "finish", !.coords = None, !.pixel_coords = None,
              !.retry = 0, !.ret = None, !.outs = <<>>, !.attempt = 0,
              !.action = None, !.seen = NoShot, !.raising = TRUE]

\* The except clause of _execute_step: an exception raised anywhere in the
\* step is caught and the step returns False (the caller of OnStepError
\* records the failed action).
OnStepError(rec) ==
  [ReturnSuccess(rec, FALSE) EXCEPT !.retry = 0, !.ret = None, !.outs = <<>>,
                                    !.attempt = 0, !.action = None, !.caught = TRUE]

\* AfterCapture going on with the step although the capture failed.
AfterCaptureIgnoresFailure(rec, step, ok) ==
  LET noted == [rec EXCEPT !.dev_ok = @ /\ ok, !.no_shot = ~ok]
  IN  IF IsNonVisual(step)
      THEN [noted EXCEPT !.pc = "perform"]
      ELSE [CallVision(noted, "locate") EXCEPT !.n_locate = 1]

\* _execute_step after capture_screen returned ok: a failed capture fails the
\* step at once; else the step is classified and goes to the device (it needs
\* no location) or to its first locate call.
AfterCapture(rec, step, ok) ==
  IF ~ok
  THEN ReturnSuccess([rec EXCEPT !.dev_ok = FALSE, !.no_shot = TRUE], FALSE)
  ELSE IF IsNonVisual(step)
  THEN [rec EXCEPT !.pc = "perform"]
  ELSE [CallVision(rec, "locate") EXCEPT !.n_locate = 1]

\* _execute_step, up to the first vision call: capture_screen, then the
\* classification of the step.
ExecCapture(r) ==
  /\ run[r].pc = "capture"
  /\ LET step == run[r].steps[run[r].idx]
         rec  == [run[r] EXCEPT !.step = step, !.order = Append(@, run[r].idx),
                                !.coords = None, !.pixel_coords = None,
                                !.action = None, !.attempt = 0, !.success = FALSE,
                                !.n_locate = 0, !.n_navq = 0, !.n_navd = 0,
                                !.n_capture = 1, !.prims = <<>>, !.no_shot = FALSE]
     IN  \E ok \in BOOLEAN :
           /\ Replayed(rec, ToString(ok))
           /\ shot' = IF ok THEN [by |-> r, fresh |-> TRUE] ELSE shot
           /\ Set(r, AfterCapture(Logged(rec, "capture_screen", ToString(ok)), step, ok))
  /\ UNCHANGED <<stats, intelligent_mode, max_retries, screen_width, screen_height,
                 env, probe>>

(***************************************************************************)
(* ScreenParser.locate and ScreenParser.query, one request attempt a step. *)
(***************************************************************************)
\* What one attempt of locate can meet:
\*   point        a response whose 'point' is a list of two numbers
\*   no_point     a response without a 'point' field
\*   bad_point    a response whose 'point' is not a list of exactly 2
\*   non_numeric  a 2-element 'point' that the log line cannot format (raises)
\*   error        the request or the decoding of the response raises
\*   image_error  _optimize_image raises, before the call is recorded
LocateOutcomes ==
  {[kind |-> "point", value |-> Some(p)] : p \in DiagonalPoints \cup {NaNPoint}}
    \cup {[kind |-> k, value |-> None] :
            k \in {"no_point", "bad_point", "non_numeric", "error", "image_error"}}

\* What one attempt of query can meet: an answer (the empty string when the
\* response has no answer field), or one of the two errors.
QueryOutcomes ==
  {[kind |-> "answer", value |-> Some(a)] : a \in AnswerPool \cup {NonString}}
    \cup {[kind |-> k, value |-> None] : k \in {"error", "image_error"}}

\* The outcomes that raise inside the try block.
Raises(out) == out.kind \in {"non_numeric", "error", "image_error"}

\* The attempt recorded its call in the stats before the request was made.
Recorded(out) == out.kind # "image_error"

\* The value an attempt that does not raise returns.
Returned(out) == IF out.kind \in {"point", "answer"} THEN out.value ELSE None

\* What outs keeps of an attempt: that it raised, or the kind of response.
Noted(out) == IF Raises(out) THEN "raised" ELSE out.kind

\* Attempt treating a response without a usable point as an error to retry.
AttemptRetriesMiss(rec, out, retpc) ==
  IF (Raises(out) \/ out.kind \in {"no_point", "bad_point"}) /\ RetryAgain(rec.retry)
  THEN [rec EXCEPT !.retry = @ + 1, !.outs = Append(@, Noted(out))]
  ELSE [rec EXCEPT !.pc = retpc, !.outs = Append(@, Noted(out)),
                   !.ret = IF Raises(out) THEN None ELSE Returned(out)]

\* One attempt of the vision call in flight: it returns, or it raises and the
\* except branch retries or gives up with None.
Attempt(rec, out, retpc) ==
  IF Raises(out) /\ RetryAgain(rec.retry)
  THEN [rec EXCEPT !.retry = @ + 1, !.outs = Append(@, Noted(out))]
  ELSE [rec EXCEPT !.pc = retpc, !.outs = Append(@, Noted(out)),
                   !.ret = IF Raises(out) THEN None ELSE Returned(out)]

\* The response says that nothing was found.
Misses(out) == out.kind \in {"no_point", "bad_point"}

\* The response breaks the wire contract of the service (answer: string,
\* point: [x, y] with x, y in [0,1]) in a way that query and locate pass on.
Malformed(out) ==
  \/ out.kind = "point" /\ out.value = Some(NaNPoint)
  \/ out.kind = "answer" /\ out.value = Some(NonString)

\* The environment raises at most env.faults_left more request errors,
\* answers at most env.misses_left more locate requests with nothing found,
\* and sends at most env.malformed_left more responses that break the wire
\* contract.
Allowed(out) ==
  /\ Raises(out) => env.faults_left > 0
  /\ Misses(out) => env.misses_left > 0
  /\ Malformed(out) => env.malformed_left > 0

Spend(out) ==
  IF Raises(out) THEN [env EXCEPT !.faults_left = @ - 1]
  ELSE IF Misses(out) THEN [env EXCEPT !.misses_left = @ - 1]
  ELSE IF Malformed(out) THEN [env EXCEPT !.malformed_left = @ - 1]
  ELSE env

LocateAttempt(r) ==
  /\ run[r].pc = "locate"
  /\ \E out \in LocateOutcomes :
       /\ Allowed(out)
       /\ Replayed(run[r], ToString(out))
       /\ env' = Spend(out)
       /\ stats' = IF Recorded(out)
                   THEN RecordDetection(RecordPointCall(stats), "moondream")
                   ELSE stats
       /\ Set(r, [Attempt(Logged(run[r], "locate " \o run[r].step, ToString(out)),
                          out, "locate_ret") EXCEPT !.seen = shot])
  /\ UNCHANGED <<intelligent_mode, max_retries, screen_width, screen_height, shot, probe>>

QueryAttempt(r) ==
  /\ run[r].pc = "query"
  /\ \E out \in QueryOutcomes :
       /\ Allowed(out)
       /\ Replayed(run[r], ToString(out))
       /\ env' = Spend(out)
       /\ stats' = IF Recorded(out) THEN RecordQueryCall(stats) ELSE stats
       /\ Set(r, [Attempt(Logged(run[r], "query " \o run[r].step, ToString(out)),
                          out, "query_ret") EXCEPT !.seen = shot])
  /\ UNCHANGED <<intelligent_mode, max_retries, screen_width, screen_height, shot, probe>>

(***************************************************************************)
(* _basic_locate and _intelligent_locate.                                  *)
(***************************************************************************)
\* MoreAttempts asking for advice after the last attempt too.
MoreAttemptsOffByOne(attempt, retries) == attempt < retries

\* The loop of _intelligent_locate goes on to the navigation query.
MoreAttempts(attempt, retries) == attempt < retries - 1

\* locate has returned to _basic_locate or to the loop of
\* _intelligent_locate.
LocateReturn(r) ==
  /\ run[r].pc = "locate_ret"
  /\ LET rec == run[r]
     IN  IF ~intelligent_mode \/ rec.ret # None
         THEN Set(r, ReturnCoords(rec, rec.ret))
         ELSE IF MoreAttempts(rec.attempt, max_retries)
         THEN Set(r, [CallVision(rec, "query") EXCEPT !.n_navq = @ + 1])
         ELSE Set(r, ReturnCoords(rec, None))
  /\ UNCHANGED <<stats, intelligent_mode, max_retries, screen_width, screen_height,
                 shot, env, probe>>

\* The suggestion is absent or says "not possible".
Declined(action) == action = None \/ Contains("not possible", action[1])

\* query has returned to get_navigation_suggestion, which returns to the
\* loop: the suggestion is dispatched next, or the loop breaks.
NavSuggestion(r) ==
  /\ run[r].pc = "query_ret"
  /\ LET rec     == run[r]
         action  == IF rec.ret = Some(NonString) THEN None ELSE NavigationAction(rec.ret)
         counted == IF Truthy(rec.ret) THEN RecordReasoningCall(stats) ELSE stats
         noted   == [rec EXCEPT !.declined = Declined(action)]
     IN  IF rec.ret = Some(NonString)
         THEN /\ stats' = RecordAction(counted, FALSE)
              /\ Set(r, OnStepError(rec))
         ELSE IF ShouldNavigate(action)
         THEN /\ stats' = RecordNavigation(counted)
              /\ Set(r, [noted EXCEPT !.pc = "nav_dispatch", !.action = action,
                                      !.retry = 0, !.ret = None, !.outs = <<>>])
         ELSE /\ stats' = counted
              /\ Set(r, ReturnCoords(noted, None))
  /\ UNCHANGED <<intelligent_mode, max_retries, screen_width, screen_height, shot,
                 env, probe>>

\* What the dispatched primitive may answer: no primitive is a failure, wait
\* always succeeds, the device decides the rest.
DeviceResults(d) ==
  IF d.prim = "none" THEN {FALSE} ELSE IF d.prim = "wait" THEN {TRUE} ELSE BOOLEAN

\* The primitives that act on the device's screen.
ActsOnScreen(d) == d.prim \in {"type_text", "scroll", "press_key", "click"}

Acted(d) == IF ActsOnScreen(d) THEN [shot EXCEPT !.fresh = FALSE] ELSE shot

Invoked(d) == IF d.prim = "none" THEN <<>> ELSE <<d>>

\* The for loop of _intelligent_locate goes to its next iteration, a new
\* locate call, or is exhausted and falls through to `return None`.
NextIteration(rec) ==
  IF rec.attempt + 1 < max_retries
  THEN [CallVision(rec, "locate") EXCEPT !.attempt = @ + 1, !.n_locate = @ + 1]
  ELSE ReturnCoords(rec, None)

\* AfterNavigation giving the loop up when the navigation failed.
AfterNavigationAborts(rec, d, ok) ==
  IF ok
  THEN [rec EXCEPT !.pc = "nav_recapture", !.action = None]
  ELSE ReturnCoords([rec EXCEPT !.dev_ok = @ /\ d.prim = "none"], None)

\* The if/else on the result of perform_action(action): settle and recapture,
\* or note the failure and fall through to the next iteration.
AfterNavigation(rec, d, ok) ==
  IF ok
  THEN [rec EXCEPT !.pc = "nav_recapture", !.action = None]
  ELSE NextIteration([rec EXCEPT !.action = None, !.dev_ok = @ /\ d.prim = "none"])

\* perform_action(action) for the suggestion, without coordinates.
NavDispatch(r) ==
  /\ run[r].pc = "nav_dispatch"
  /\ LET rec == [run[r] EXCEPT !.n_navd = @ + 1]
         d   == Dispatch(rec.action[1], None)
     IN  /\ shot' = Acted(d)
         /\ \E ok \in DeviceResults(d) :
              /\ Replayed(rec, ToString(ok))
              /\ Set(r, AfterNavigation(Logged(rec, ToString(d), ToString(ok)), d, ok))
  /\ UNCHANGED <<stats, intelligent_mode, max_retries, screen_width, screen_height,
                 env, probe>>

\* The recapture after a navigation that was executed; its result is not
\* looked at.  The next iteration of the loop begins.
NavRecapture(r) ==
  /\ run[r].pc = "nav_recapture"
  /\ \E ok \in BOOLEAN :
       /\ Replayed(run[r], ToString(ok))
       /\ shot' = IF ok THEN [by |-> r, fresh |-> TRUE] ELSE shot
       /\ Set(r, NextIteration([Logged(run[r], "capture_screen", ToString(ok))
                                  EXCEPT !.n_capture = @ + 1, !.dev_ok = @ /\ ok]))
  /\ UNCHANGED <<stats, intelligent_mode, max_retries, screen_width, screen_height,
                 env, probe>>

(***************************************************************************)
(* _execute_step after the location, and the loop of run_test_case.        *)
(***************************************************************************)
\* The step is given up because nothing was located.
GivesUp(coords, step) == coords = None /\ ~Contains("type", Lower(step))

\* _execute_step after _basic_locate or _intelligent_locate returned: the
\* step fails when nothing was located (unless it types), else the point is
\* converted to pixels.
Resolved(r) ==
  /\ run[r].pc = "resolved"
  /\ LET rec == run[r]
     IN  IF GivesUp(rec.coords, rec.step)
         THEN /\ stats' = RecordAction(stats, FALSE)
              /\ Set(r, ReturnSuccess(rec, FALSE))
         ELSE IF rec.coords = Some(NaNPoint)
         THEN /\ stats' = RecordAction(stats, FALSE)
              /\ Set(r, OnStepError(rec))
         ELSE /\ stats' = stats
              /\ Set(r, [rec EXCEPT
                           !.pc = "perform",
                           !.pixel_coords =
                              IF rec.coords # None
                              THEN Some(ConvertNormalizedToPixels(
                                          rec.coords[1], screen_width, screen_height))
                              ELSE None])
  /\ UNCHANGED <<intelligent_mode, max_retries, screen_width, screen_height, shot,
                 env, probe>>

\* perform_action(step, pixel_coords), record_action(success), return.
PerformStep(r) ==
  /\ run[r].pc = "perform"
  /\ LET rec == run[r]
         d   == Dispatch(rec.step, rec.pixel_coords)
     IN  /\ shot' = Acted(d)
         /\ \E ok \in DeviceResults(d) :
              /\ Replayed(rec, ToString(ok))
              /\ stats' = RecordAction(stats, ok)
              /\ Set(r, [ReturnSuccess(Logged(rec, ToString(d), ToString(ok)), ok) EXCEPT
                           !.prims = Invoked(d),
                           !.dev_ok = @ /\ (ok \/ d.prim = "none")])
  /\ UNCHANGED <<intelligent_mode, max_retries, screen_width, screen_height, env, probe>>

\* What was noted about a step that succeeded is dropped.
Forget(rec) ==
  [rec EXCEPT !.step = "", !.success = FALSE, !.prims = <<>>, !.n_locate = 0,
              !.n_navq = 0, !.n_navd = 0, !.n_capture = 0, !.declined = FALSE,
              !.caught = FALSE]

\* AfterStep without the break: a failed step is noted and the loop goes on.
AfterStepNoBreak(rec) ==
  [(IF rec.success THEN Forget(rec) ELSE rec) EXCEPT
     !.completed_steps = IF rec.success THEN @ + 1 ELSE @,
     !.failed_step = IF rec.success THEN @ ELSE Some(rec.step),
     !.idx = IF rec.idx < Len(rec.steps) THEN @ + 1 ELSE @,
     !.pc = IF rec.idx < Len(rec.steps) THEN "capture" ELSE "finish"]

\* AfterStep leaving the loop one step early.
AfterStepShort(rec) ==
  IF rec.success
  THEN [Forget(rec) EXCEPT
          !.completed_steps = @ + 1,
          !.idx = IF rec.idx + 1 < Len(rec.steps) THEN @ + 1 ELSE @,
          !.pc = IF rec.idx + 1 < Len(rec.steps) THEN "capture" ELSE "finish"]
  ELSE [rec EXCEPT !.failed_step = Some(rec.step), !.pc = "finish"]

\* The body of the loop of run_test_case after _execute_step returned
\* success: count the step and go on, or break with the failed step.
AfterStep(rec) ==
  IF rec.success
  THEN [Forget(rec) EXCEPT
          !.completed_steps = @ + 1,
          !.idx = IF rec.idx < Len(rec.steps) THEN @ + 1 ELSE @,
          !.pc = IF rec.idx < Len(rec.steps) THEN "capture" ELSE "finish"]
  ELSE [rec EXCEPT !.failed_step = Some(rec.step), !.pc = "finish"]

StepReturn(r) ==
  /\ run[r].pc = "step_ret"
  /\ Set(r, AfterStep(run[r]))
  /\ UNCHANGED <<stats, intelligent_mode, max_retries, screen_width, screen_height,
                 shot, env, probe>>

\* The status run_test_case reports.
Status(completed_steps, steps) ==
  IF completed_steps = Len(steps) THEN "success" ELSE "failed"

\* The finally clause and the result of run_test_case.
FinishRun(r) ==
  /\ run[r].pc = "finish"
  /\ stats' = EndTest(stats)
  /\ LET rec == run[r]
     IN  Set(r, IF rec.raising THEN [rec EXCEPT !.pc = "done"] ELSE [rec EXCEPT
                   !.pc = "done",
                   !.result = Some([status |-> Status(rec.completed_steps, rec.steps),
                                    completed_steps |-> rec.completed_steps,
                                    total_steps |-> Len(rec.steps),
                                    failed_step |-> rec.failed_step,
                                    statistics |-> Summary(stats')])])
  /\ UNCHANGED <<intelligent_mode, max_retries, screen_width, screen_height, shot,
                 env, probe>>

Next ==
  \E r \in RunIds :
    \/ StartRun(r)
    \/ ExecCapture(r)
    \/ LocateAttempt(r)
    \/ LocateReturn(r)
    \/ QueryAttempt(r)
    \/ NavSuggestion(r)
    \/ NavDispatch(r)
    \/ NavRecapture(r)
    \/ Resolved(r)
    \/ PerformStep(r)
    \/ StepReturn(r)
    \/ FinishRun(r)

\* One run of a test case of at most MaxSteps steps on a fresh agent.
Spec == Init /\ [][Next]_vars

\* One run on a fresh agent whose vision service may break its contract.
SpecFaulty == InitFaulty /\ [][Next]_vars

\* Two overlapping POST /run_test requests on the module-level agent: each
\* handler runs in a thread of the server's pool and calls run_test_case.
SpecRace == InitRace /\ [][Next]_vars

\* One run of a single step, for every max_retries up to MaxRetriesBound.
SpecNav == InitNav /\ [][Next]_vars

(***************************************************************************)
(* A caller that uses the agent for more than one run.                     *)
(***************************************************************************)
\* The step of a run of the session.
SessionPool == {"click search icon"}

\* No run_test_case call is under way.
AgentIdle == \A r \in RunIds : run[r].pc \in {"off", "idle", "done"}

RECURSIVE RecordQueryCalls(_, _)
\* record_query_call, n times.
RecordQueryCalls(st, n) ==
  IF n = 0 THEN st ELSE RecordQueryCalls(RecordQueryCall(st), n - 1)

\* query_screen between two runs: capture_screen, whose result is ignored,
\* then query: attempts request attempts of which the last one returned an
\* answer or was the last one allowed, and recorded of which got as far as
\* record_query_call.
QueryScreen ==
  /\ AgentIdle
  /\ env.queries_left > 0
  /\ \E ok \in BOOLEAN, attempts \in 1..MaxAttempts, returned \in BOOLEAN :
       \E recorded \in (IF returned THEN 1 ELSE 0)..attempts :
         /\ ~returned => ~RetryAgain(attempts)
         /\ stats' = RecordQueryCalls(stats, recorded)
         /\ shot' = IF ok THEN [by |-> "query_screen", fresh |-> TRUE] ELSE shot
         /\ env' = [env EXCEPT !.queries_left = @ - 1]
  /\ UNCHANGED <<run, intelligent_mode, max_retries, screen_width, screen_height, probe>>

\* StatsTracker.reset, called between two runs.
ResetStats ==
  /\ AgentIdle
  /\ env.resets_left > 0
  /\ stats' = Reset(stats)
  /\ env' = [env EXCEPT !.resets_left = @ - 1]
  /\ UNCHANGED <<run, intelligent_mode, max_retries, screen_width, screen_height,
                 shot, probe>>

\* One caller, runs of at most one step; during the runs the vision service
\* raises no request error.
InitSession ==
  /\ InitAgent
  /\ max_retries = DefaultMaxRetries
  /\ env = [runs_left |-> SessionRuns, max_len |-> 1, pool |-> SessionPool,
            faults_left |-> 0, misses_left |-> RunMisses,
            malformed_left |-> 0, queries_left |-> SessionQueries,
            resets_left |-> SessionResets, flags |-> {TRUE},
            traced |-> FALSE]

NextSession == Next \/ QueryScreen \/ ResetStats

\* The runs of one caller on one agent, one after the other, with
\* query_screen and reset calls between them.
SpecSession == InitSession /\ [][NextSession]_vars

\* One caller that sends a test case once with each value of the execute
\* flag, runs of at most one step; the calls and replies of the runs are
\* kept, each run may meet one locate request that finds nothing, and a run
\* of the same steps as the run before it is answered as that run was.
InitExecute ==
  /\ InitAgent
  /\ max_retries = DefaultMaxRetries
  /\ env = [runs_left |-> Cardinality(BOOLEAN), max_len |-> 1, pool |-> SessionPool,
            faults_left |-> 0, misses_left |-> Cardinality(BOOLEAN),
            malformed_left |-> 0, queries_left |-> 0, resets_left |-> 0,
            flags |-> BOOLEAN, traced |-> TRUE]

\* Two runs of one caller, one after the other, with either value of the
\* execute flag.
SpecExecute == InitExecute /\ [][Next]_vars

(***************************************************************************)
(* The pure functions on inputs of their own: Init draws the input, the    *)
(* action applies the function.  No run is in progress.                    *)
(***************************************************************************)
Quiet ==
  /\ stats = InitStats
  /\ intelligent_mode = TRUE
  /\ max_retries = DefaultMaxRetries
  /\ shot = NoShot
  /\ env = [runs_left |-> 0, max_len |-> 0, pool |-> {}, faults_left |-> 0,
            misses_left |-> 0, malformed_left |-> 0, queries_left |-> 0,
            resets_left |-> 0, flags |-> {TRUE}, traced |-> FALSE]
  /\ run = [r \in RunIds |-> OffRun]

\* Screens: the default, two common ones, and two tiny ones.
ScreenSizes == {<<1080, 2400>>, <<720, 1280>>, <<1440, 3120>>, <<1, 1>>, <<3, 5>>}

InitConvert ==
  /\ Quiet
  /\ \E size \in ScreenSizes : screen_width = size[1] /\ screen_height = size[2]
  /\ \E p \in Points : probe = [fn |-> "convert", in |-> p, out |-> None]

\* convert_normalized_to_pixels(x, y) on the device's screen.
ApplyConvert ==
  /\ probe.fn = "convert"
  /\ probe.out = None
  /\ probe' = [probe EXCEPT
                 !.out = Some(ConvertNormalizedToPixels(probe.in, screen_width,
                                                        screen_height))]
  /\ UNCHANGED <<run, stats, intelligent_mode, max_retries, screen_width,
                 screen_height, shot, env>>

SpecConvert == InitConvert /\ [][ApplyConvert]_vars

\* Typing steps: a marker word, the text to type, and a trailing phrase.
TypingMarkers == {"type", "Type", "input", "enter", "now type", "please input"}

TypingBodies ==
  {"hello world", "Hello", "42", "a and send b", "rock and send it",
   "x and press enter y"}

TypingTrailers == {"", " and press enter", " and send"}

TypingInputs == [marker : TypingMarkers, body : TypingBodies, trailer : TypingTrailers]

\* The step a typing input spells.
StepOf(in) == in.marker \o " " \o in.body \o in.trailer

InitTyping ==
  /\ Quiet
  /\ screen_width = DefaultScreenWidth
  /\ screen_height = DefaultScreenHeight
  /\ \E in \in TypingInputs : probe = [fn |-> "perform_action", in |-> in, out |-> None]

\* perform_action(step) for a typing step: the primitive it invokes.
ApplyPerformAction ==
  /\ probe.fn = "perform_action"
  /\ probe.out = None
  /\ probe' = [probe EXCEPT !.out = Some(Dispatch(StepOf(probe.in), None))]
  /\ UNCHANGED <<run, stats, intelligent_mode, max_retries, screen_width,
                 screen_height, shot, env>>

SpecTyping == InitTyping /\ [][ApplyPerformAction]_vars

\* Steps of every class of the dispatcher, with and without the argument the
\* class needs, and steps that match no keyword.
DispatchSteps ==
  {"type hello", "type", "input abc", "enter code 12", "Type Hello World",
   "scroll down", "scroll up", "swipe left", "swipe right", "Scroll",
   "press back", "go back", "press home", "press enter", "press menu",
   "Press Back", "home", "wait 3 seconds", "wait", "wait 10",
   "click search icon", "tap login", "open settings", "long tap photo",
   "scroll and type hi", "swipe up and wait 2", "back then wait 1",
   "type text and press back"}

\* The pixel coordinates the caller passes, if any.
DispatchCoords == {None, Some(<<540, 1200>>), Some(<<0, 0>>)}

InitDispatch ==
  /\ Quiet
  /\ screen_width = DefaultScreenWidth
  /\ screen_height = DefaultScreenHeight
  /\ \E step \in DispatchSteps, coords \in DispatchCoords :
       probe = [fn |-> "dispatch", in |-> [step |-> step, coords |-> coords],
                out |-> None]

\* perform_action(step, pixel_coords): the primitives it invokes, in order,
\* and what it returns.
ApplyDispatch ==
  /\ probe.fn = "dispatch"
  /\ probe.out = None
  /\ LET d == Dispatch(probe.in.step, probe.in.coords)
     IN  \E ok \in DeviceResults(d) :
           probe' = [probe EXCEPT !.out = Some([calls |-> Invoked(d), success |-> ok])]
  /\ UNCHANGED <<run, stats, intelligent_mode, max_retries, screen_width,
                 screen_height, shot, env>>

SpecDispatch == InitDispatch /\ [][ApplyDispatch]_vars

(***************************************************************************)
(* Properties.                                                             *)
(***************************************************************************)
Started == {r \in RunIds : run[r].pc \notin {"off", "idle"}}

Finished == {r \in RunIds : run[r].pc = "done"}

\* The index of the first step whose execution returned failure (0: none).
FirstFailure(rec) ==
  IF \A i \in DOMAIN rec.returns : rec.returns[i] THEN 0
  ELSE CHOOSE i \in DOMAIN rec.returns :
         ~rec.returns[i] /\ \A j \in 1..(i - 1) : rec.returns[j]

\* order is 1, 2, .., n: the steps were taken in the given order, once each.
InOrder(order, n) == Len(order) = n /\ \A i \in 1..n : order[i] = i

\* C1: a run whose first failing step is step k reports status "failed",
\* completed_steps = k-1, total_steps = N and failed_step = the text of
\* step k, and at no time is a step after k attempted: the steps attempted
\* are 1..k in order, and once a step has returned failure _execute_step is
\* not called again.
C1_FailFast ==
  \A r \in Started :
    LET rec == run[r]
        k   == FirstFailure(rec)
    IN  /\ InOrder(rec.order, Len(rec.order))
        /\ Len(rec.order) \in {Len(rec.returns), Len(rec.returns) + 1}
        /\ k # 0 =>
             /\ InOrder(rec.order, k)
             /\ Len(rec.returns) = k
             /\ rec.pc \in {"step_ret", "finish", "done"}
        /\ (k # 0 /\ rec.pc = "done") =>
             /\ rec.result[1].status = "failed"
             /\ rec.result[1].completed_steps = k - 1
             /\ rec.result[1].total_steps = Len(rec.steps)
             /\ rec.result[1].failed_step = Some(rec.steps[k])

\* C1 witness: a finished run of two steps whose first step failed; the
\* second step was never attempted.
C1_Witness ==
  \E r \in Finished :
    /\ Len(run[r].steps) = 2
    /\ run[r].returns = <<FALSE>>
    /\ run[r].order = <<1>>
    /\ run[r].result[1].failed_step = Some(run[r].steps[1])

\* C2: a run all of whose step executions returned success executed the
\* steps in the given order, each exactly once, and reports status
\* "success", completed_steps = N, total_steps = N and no failed step.
C2_AllSucceed ==
  \A r \in Finished :
    LET rec == run[r]
    IN  FirstFailure(rec) = 0 =>
          /\ InOrder(rec.order, Len(rec.steps))
          /\ Len(rec.returns) = Len(rec.steps)
          /\ rec.result[1].status = "success"
          /\ rec.result[1].completed_steps = Len(rec.steps)
          /\ rec.result[1].total_steps = Len(rec.steps)
          /\ rec.result[1].failed_step = None

\* C2 witness: a finished run of two different steps that both succeeded.
C2_Witness ==
  \E r \in Finished :
    /\ Len(run[r].steps) = 2
    /\ run[r].steps[1] # run[r].steps[2]
    /\ run[r].returns = <<TRUE, TRUE>>
    /\ run[r].result[1].status = "success"

\* The locate strategy of the step is running (from its first locate call
\* until coords is returned to _execute_step).
InLoop(rec) == rec.pc \in {"locate", "locate_ret", "query", "query_ret",
                           "nav_dispatch", "nav_recapture"}

C3_Bounds ==
  \A r \in Started :
    LET rec == run[r]
    IN  /\ rec.n_locate <= max_retries
        /\ rec.n_navq <= max_retries - 1
        /\ rec.n_navd <= max_retries - 1
        /\ InLoop(rec) => rec.attempt < max_retries /\ rec.n_locate = rec.attempt + 1
        /\ rec.pc = "resolved" => rec.coords = None \/ rec.coords[1] \in Points \cup {NaNPoint}
        /\ InLoop(rec) => ENABLED Next

C3_LastAttempt ==
  \A r \in RunIds :
    (/\ run[r].pc = "locate_ret"
     /\ intelligent_mode
     /\ run[r].ret = None
     /\ run[r].attempt = max_retries - 1
     /\ run'[r] # run[r])
    => /\ run'[r].pc = "resolved"
       /\ run'[r].coords = None
       /\ run'[r].n_navq = run[r].n_navq

\* What is left of the loop, at most: the iterations left, within the
\* iteration the stages left, within a vision call the attempts left.
Stage(pc) ==
  CASE pc = "locate" -> 5 [] pc = "locate_ret" -> 4 [] pc = "query" -> 3
    [] pc = "query_ret" -> 2 [] pc = "nav_dispatch" -> 1 [] OTHER -> 0

Remaining(rec) ==
  ((max_retries - rec.attempt) * 6 + Stage(rec.pc)) * (MaxAttempts + 1)
    + (MaxAttempts - rec.retry)

\* Every step of the loop brings its end nearer.
C3_Progress ==
  \A r \in RunIds :
    (InLoop(run[r]) /\ run'[r] # run[r])
    => \/ run'[r].pc = "resolved"
       \/ InLoop(run'[r]) /\ 0 <= Remaining(run'[r]) /\ Remaining(run'[r]) < Remaining(run[r])

Typing(step) == Contains("type", Lower(step))

\* After a declined suggestion the loop is over: it returned nothing, every
\* locate call of the step was followed by a navigation query, every query
\* but the declined one by a dispatch and a count of the navigation.
EndsNotFound(rec) ==
  /\ rec.pc \in {"resolved", "perform", "step_ret", "finish", "done"}
  /\ rec.pc = "resolved" => rec.coords = None
  /\ rec.n_locate = rec.n_navq
  /\ rec.n_navd = rec.n_navq - 1
  /\ stats.auto_navigations = rec.stats0.auto_navigations + rec.n_navd

\* The step whose location was given up fails, and the run with it.
StepFails(rec) ==
  /\ rec.pc = "step_ret" => ~rec.success
  /\ rec.pc = "done" =>
       /\ rec.result[1].status = "failed"
       /\ rec.result[1].failed_step = Some(rec.step)
       /\ rec.result[1].completed_steps = Len(rec.order) - 1

\* The step of the loop that receives a declined suggestion returns nothing
\* at once: no dispatch, no navigation counted, no further locate call.
C4_Immediately ==
  \A r \in RunIds :
    (/\ run[r].pc = "query_ret"
     /\ Declined(NavigationAction(run[r].ret))
     /\ run'[r] # run[r])
    => /\ run'[r].pc = "resolved"
       /\ run'[r].coords = None
       /\ run'[r].n_locate = run[r].n_locate
       /\ run'[r].n_navd = run[r].n_navd
       /\ stats'.auto_navigations = stats.auto_navigations

C4_Declined ==
  \A r \in Started :
    (intelligent_mode /\ run[r].declined)
    => /\ EndsNotFound(run[r])
       /\ ~Typing(run[r].step) => StepFails(run[r])

\* C4 as stated, for every visual step: when a locate call fails and the
\* navigation suggestion is absent or "not possible", the loop ends in
\* NotFound at once and the step, and the run, fail with failed_step = the
\* step's text.
C4_DeclinedFailsAnyStep ==
  \A r \in Started :
    (intelligent_mode /\ run[r].declined)
    => EndsNotFound(run[r]) /\ StepFails(run[r])

\* C4 (amended): when a locate call fails and the navigation suggestion is
\* absent or "not possible", the loop ends in NotFound at once: nothing is
\* dispatched, no navigation is counted, no further locate call is made; and
\* a visual step that does not contain "type" then fails, so that when the
\* first suggestion is declined the run fails after exactly 1 locate call
\* with failed_step = that step's text.
C4_NotPossibleEndsLoop == []C4_Declined /\ [][C4_Immediately]_vars

\* C4 witness: "click search icon" with max_retries = 3; the first locate
\* call returned nothing, the suggestion was declined, the run failed after
\* that one locate call.
C4_Witness ==
  \E r \in Finished :
    /\ intelligent_mode
    /\ max_retries = DefaultMaxRetries
    /\ run[r].declined
    /\ run[r].step = "click search icon"
    /\ run[r].n_locate = 1
    /\ run[r].n_navq = 1
    /\ run[r].n_navd = 0
    /\ run[r].result[1].status = "failed"
    /\ run[r].result[1].failed_step = Some("click search icon")

\* C5: in every reachable state of a run, successful_actions +
\* failed_actions = actions_performed, in the tracker and in the summary a
\* finished run reports.
C5_ActionCounters ==
  /\ stats.successful_actions + stats.failed_actions = stats.actions_performed
  /\ \A r \in Finished :
       LET s == run[r].result[1].statistics
       IN  s.successful + s.failed = s.total

\* C5 witness: a run in which one action succeeded and one failed.
C5_Witness ==
  /\ stats.successful_actions = 1
  /\ stats.failed_actions = 1
  /\ \E r \in Finished : Len(run[r].steps) = 2

\* The scroll and wait steps of the scenario.
ScrollWaitSteps == {"scroll down", "scroll up", "wait 1", "wait 1 second"}

\* C6: in a run whose every step is a scroll or a wait step, no locate call
\* and no navigation query is ever issued (the locate and query counters stay
\* where they were when the run started), and when every device call
\* succeeded the result is "success" with completed_steps = N.
C6_NonVisualRun ==
  \A r \in Started :
    LET rec == run[r]
    IN  (\A i \in DOMAIN rec.steps : rec.steps[i] \in ScrollWaitSteps)
        => /\ ~InLoop(rec)
           /\ rec.n_locate = 0
           /\ rec.n_navq = 0
           /\ Summary(stats).moondream_point = rec.stats0.moondream_point
           /\ Summary(stats).moondream_query = rec.stats0.moondream_query
           /\ (rec.pc = "done" /\ rec.dev_ok) =>
                /\ rec.result[1].status = "success"
                /\ rec.result[1].completed_steps = Len(rec.steps)
                /\ rec.result[1].statistics.moondream_point = rec.stats0.moondream_point

\* C6 witness: the run of "scroll down" then "wait 1" with every device call
\* succeeding ended in success.
C6_Witness ==
  \E r \in Finished :
    /\ run[r].steps = <<"scroll down", "wait 1">>
    /\ run[r].dev_ok
    /\ run[r].result[1].status = "success"
    /\ run[r].result[1].completed_steps = 2

\* floor(num / den) for num >= 0 and den > 0, from its definition.
Floor(num, den) == CHOOSE k \in 0..num : k * den <= num /\ num < (k + 1) * den

\* C7: for all x, y in the closed interval [0,1] (x = 1 and y = 1 included)
\* and all positive screen sizes W, H, convert_normalized_to_pixels returns
\* pixel_x = floor(x*W) and pixel_y = floor(y*H) with 0 <= pixel_x < W and
\* 0 <= pixel_y < H.
C7_PixelsOnScreen ==
  (probe.fn = "convert" /\ probe.out # None)
  => LET px == probe.out[1][1]
         py == probe.out[1][2]
     IN  /\ px = Floor(probe.in.x * screen_width, Den)
         /\ py = Floor(probe.in.y * screen_height, Den)
         /\ 0 <= px /\ px < screen_width
         /\ 0 <= py /\ py < screen_height

\* C8: for a typing step (marker word, text, optional trailing phrase)
\* perform_action makes one type_text call whose text is the text after the
\* marker word with only the trailing phrase removed, the rest left as it
\* is; "type hello world and press enter" types "hello world".
C8_TypesRemainder ==
  (probe.fn = "perform_action" /\ probe.out # None)
  => probe.out[1] = [prim |-> "type_text", arg |-> probe.in.body]

\* The vision call in flight, or just returned, of a run.
InVisionCall(rec) == rec.pc \in {"locate", "query", "locate_ret", "query_ret"}

\* All the attempts noted in outs before position n raised.
RaisedBefore(outs, n) == \A i \in 1..(n - 1) : outs[i] = "raised"

\* C9: one call of query or locate makes at most 3 request attempts, each
\* attempt after the first following an attempt that raised; when the 3rd
\* attempt raises as well the call returns None; whatever the attempts meet,
\* the call returns to its caller (a value or None) and raises nothing.
C9_AtMostThreeAttempts ==
  \A r \in Started :
    LET rec == run[r]
        n   == Len(rec.outs)
    IN  InVisionCall(rec) =>
          /\ n <= MaxAttempts
          /\ rec.retry \in 1..MaxAttempts
          /\ rec.pc \in {"locate", "query"} =>
               /\ rec.retry = n + 1
               /\ RaisedBefore(rec.outs, n + 1)
               /\ rec.ret = None
          /\ rec.pc \in {"locate_ret", "query_ret"} =>
               /\ n >= 1
               /\ rec.retry = n
               /\ RaisedBefore(rec.outs, n)
               /\ rec.outs[n] = "raised" => n = MaxAttempts /\ rec.ret = None

\* C9 witness: a navigation query whose 3 attempts all raised has returned
\* None to get_navigation_suggestion.
C9_Witness ==
  \E r \in Started :
    /\ run[r].pc = "query_ret"
    /\ run[r].outs = <<"raised", "raised", "raised">>
    /\ run[r].ret = None

\* C10: a response to a locate request without a 'point' field, or whose
\* 'point' is not a list of exactly 2 elements, ends the call: locate returns
\* None after that attempt, the response is not retried.
C10_MissIsNotRetried ==
  \A r \in Started :
    LET rec == run[r]
    IN  \A i \in DOMAIN rec.outs :
          rec.outs[i] \in {"no_point", "bad_point"}
          => /\ i = Len(rec.outs)
             /\ rec.pc = "locate_ret"
             /\ rec.retry = i
             /\ rec.ret = None

\* C10 witness: the first response had a 'point' that is not a list of 2,
\* and locate has returned None after that one attempt.
C10_Witness ==
  \E r \in Started :
    /\ run[r].pc = "locate_ret"
    /\ run[r].outs = <<"bad_point">>
    /\ run[r].retry = 1
    /\ run[r].ret = None

\* The keyword groups of the dispatcher, on the lowered step.
TypingGroup(low) == Contains("type", low) \/ Contains("input", low) \/ Contains("enter", low)

ScrollGroup(low) == Contains("scroll", low) \/ Contains("swipe", low)

PressGroup(low) == Contains("press", low) \/ Contains("back", low)

WaitGroup(low) == Contains("wait", low)

Unmatched(low) == ~(TypingGroup(low) \/ ScrollGroup(low) \/ PressGroup(low) \/ WaitGroup(low))

\* perform_action was applied to a step of the dispatcher's pool.
Dispatched == probe.fn = "dispatch" /\ probe.out # None

\* A step that matches none of the keywords is a tap at the coordinates
\* given, and a failure that invokes nothing when none are given.
UnmatchedTaps ==
  Unmatched(Lower(probe.in.step))
  => IF probe.in.coords # None
     THEN probe.out[1].calls = <<[prim |-> "click", arg |-> probe.in.coords[1]]>>
     ELSE probe.out[1].calls = <<>> /\ ~probe.out[1].success

\* C11 as stated: every step is dispatched to exactly one primitive, except
\* the step that matches no keyword and comes without coordinates.
C11_ExactlyOnePrimitive ==
  Dispatched
  => /\ UnmatchedTaps
     /\ ~(Unmatched(Lower(probe.in.step)) /\ probe.in.coords = None)
          => Len(probe.out[1].calls) = 1

\* C11 (amended): perform_action invokes at most one primitive for a step,
\* one of type, scroll, key press, wait and tap; it invokes none, and returns
\* failure, exactly when the step is a typing step without text to type, a
\* key-press step (not typing, not scrolling) that names neither back nor
\* home, or a step that matches no keyword and comes without coordinates; a
\* step that matches no keyword is a tap at the coordinates given.
C11_AtMostOnePrimitive ==
  Dispatched
  => LET low   == Lower(probe.in.step)
         calls == probe.out[1].calls
     IN  /\ UnmatchedTaps
         /\ Len(calls) <= 1
         /\ \A i \in DOMAIN calls :
              calls[i].prim \in {"type_text", "scroll", "press_key", "wait", "click"}
         /\ calls = <<>> => ~probe.out[1].success
         /\ calls = <<>> <=>
              \/ TypingGroup(low) /\ ~Truthy(ExtractText(probe.in.step))
              \/ /\ ~TypingGroup(low) /\ ~ScrollGroup(low) /\ PressGroup(low)
                 /\ ~Contains("back", low) /\ ~Contains("home", low)
              \/ Unmatched(low) /\ probe.in.coords = None

\* C11 witness: "open settings" matches no keyword and was given
\* coordinates: one tap at them.
C11_Witness ==
  /\ Dispatched
  /\ probe.in.step = "open settings"
  /\ probe.in.coords = Some(<<540, 1200>>)
  /\ probe.out[1].calls = <<[prim |-> "click", arg |-> <<540, 1200>>]>>

\* C12: whatever the collaborators do (capture, locate, navigation query,
\* conversion and device action failing or raising, responses that break
\* the wire contract included), no exception leaves run_test_case: a run
\* ends with an Execution Result and with the end mark set, and a step in
\* which an error was raised returns failure, which fails the run at that
\* step.
C12_AlwaysReturns ==
  \A r \in Started :
    LET rec == run[r]
    IN  /\ ~rec.raising
        /\ rec.pc = "done" =>
             /\ rec.result # None
             /\ rec.result[1].status \in {"success", "failed"}
             /\ stats.end_time = "set"
        /\ rec.caught =>
             /\ rec.pc \in {"step_ret", "finish", "done"}
             /\ rec.returns # <<>> /\ ~rec.returns[Len(rec.returns)]
             /\ rec.pc = "step_ret" => ~rec.success
             /\ rec.pc = "done" =>
                  /\ rec.result[1].status = "failed"
                  /\ rec.result[1].failed_step = Some(rec.step)

\* C12 witness: the conversion of a located point raised in the second step
\* of a run; the run returned a failed result and the end mark is set.
C12_Witness ==
  \E r \in Finished :
    /\ run[r].caught
    /\ Len(run[r].steps) = 2
    /\ run[r].returns = <<TRUE, FALSE>>
    /\ run[r].result[1].status = "failed"
    /\ run[r].result[1].completed_steps = 1
    /\ stats.end_time = "set"

\* C13: two runs invoked concurrently on the one agent are not serialized:
\* a caller that has no run under way can start one whatever the other run
\* is doing, and the screenshot a request attempt of a run reads is one
\* captured by some run, not necessarily by the run itself.
C13_RunsInterleave ==
  /\ \A r \in RunIds :
       (run[r].pc \in {"idle", "done"} /\ env.runs_left > 0) => ENABLED StartRun(r)
  /\ \A r \in Started :
       run[r].seen.by # "none" => run[r].seen.by \in Started /\ shot.by \in Started

\* C13 witness: a locate call of one run has read a screenshot captured by
\* the other run.
C13_Witness ==
  \E r \in Started :
    /\ run[r].pc = "locate_ret"
    /\ run[r].seen.by \in RunIds \ {r}

\* Every navigation that was dispatched has been counted, the failed ones
\* too: the counter is one ahead while a dispatch is under way.
C14_Counted ==
  \A r \in Started :
    LET rec == run[r]
    IN  InLoop(rec) =>
          stats.auto_navigations =
            rec.stats0.auto_navigations + rec.n_navd
              + (IF rec.pc = "nav_dispatch" THEN 1 ELSE 0)

\* A dispatch that fails (no recapture follows) is followed by the next
\* locate call, with the attempt counter advanced.
C14_Continues ==
  \A r \in RunIds :
    (run[r].pc = "nav_dispatch" /\ run'[r] # run[r] /\ run'[r].pc # "nav_recapture")
    => /\ run'[r].pc = "locate"
       /\ run'[r].attempt = run[r].attempt + 1
       /\ run'[r].n_locate = run[r].n_locate + 1
       /\ run'[r].n_navd = run[r].n_navd + 1
       /\ stats'.auto_navigations = stats.auto_navigations

\* C14: when the suggested navigation is dispatched and fails at the device,
\* the loop does not abort: the attempt counter advances and the next locate
\* call is made, and the navigation counter has been incremented for the
\* failed navigation as well.
C14_FailedNavigationContinues == []C14_Counted /\ [][C14_Continues]_vars

\* C14 witness: the second locate call of a step is under way after one
\* navigation that was counted and dispatched and failed (the screenshot was
\* not recaptured).
C14_Witness ==
  \E r \in Started :
    /\ run[r].pc = "locate"
    /\ run[r].attempt = 1
    /\ run[r].n_navd = 1
    /\ run[r].n_capture = 1
    /\ stats.auto_navigations = run[r].stats0.auto_navigations + 1

\* C15: in the loop, every locate call after the first is made against a
\* screenshot recaptured after the preceding navigation was dispatched: each
\* dispatch has been followed by a recapture before the next locate call,
\* and the screenshot the call reads was captured after the device was last
\* acted on.
C15_RecapturedBeforeLocate ==
  \A r \in Started :
    LET rec == run[r]
    IN  (rec.pc \in {"locate", "locate_ret"} /\ rec.attempt >= 1)
        => /\ rec.n_capture = rec.n_navd + 1
           /\ rec.pc = "locate_ret" => rec.seen.fresh

\* C16: when the capture at the start of a step fails, the step returns
\* failure at once: no locate call, no navigation query, no navigation and
\* no device action is issued for it, and the run stops with that step as
\* failed_step.
C16_CaptureFailureFailsStep ==
  \A r \in Started :
    LET rec == run[r]
    IN  rec.no_shot =>
          /\ rec.pc \in {"step_ret", "finish", "done"}
          /\ rec.n_locate = 0 /\ rec.n_navq = 0 /\ rec.n_navd = 0
          /\ rec.n_capture = 1
          /\ rec.prims = <<>>
          /\ rec.returns # <<>> /\ ~rec.returns[Len(rec.returns)]
          /\ Len(rec.order) = Len(rec.returns)
          /\ rec.pc = "done" =>
               /\ rec.result[1].status = "failed"
               /\ rec.result[1].failed_step = Some(rec.steps[Len(rec.order)])
               /\ rec.result[1].completed_steps = Len(rec.order) - 1

\* C16 witness: the capture of the second of two steps failed; the run ended
\* with the second step as failed_step.
C16_Witness ==
  \E r \in Finished :
    /\ run[r].no_shot
    /\ Len(run[r].steps) = 2
    /\ run[r].returns = <<TRUE, FALSE>>
    /\ run[r].result[1].failed_step = Some(run[r].steps[2])

\* C17: every execution of a step records exactly one action outcome, so
\* that at the end of the first run on a fresh agent actions_performed equals
\* the number of steps attempted: completed_steps, plus one when the run
\* failed.
C17_OneActionPerStep ==
  \A r \in Finished :
    LET rec == run[r]
    IN  (rec.result # None /\ rec.stats0 = Summary(InitStats)) =>
          rec.result[1].statistics.total =
            rec.result[1].completed_steps +
              (IF rec.result[1].status = "failed" THEN 1 ELSE 0)

\* The key a key-press step names: back before home before enter.
NamedKey(low) ==
  IF Contains("back", low) THEN Some("back")
  ELSE IF Contains("home", low) THEN Some("home")
  ELSE IF Contains("enter", low) THEN Some("enter")
  ELSE None

\* C18: a key-press step is dispatched to the matching key press: a step
\* that contains "press" and names a key (and asks for no typing by "type"
\* or "input", and for no scroll or swipe) results in one press of that key:
\* back, home, or enter as in "press enter".
C18_PressesNamedKey ==
  Dispatched
  => LET low == Lower(probe.in.step)
     IN  ( /\ Contains("press", low)
           /\ ~Contains("type", low) /\ ~Contains("input", low)
           /\ ~ScrollGroup(low)
           /\ NamedKey(low) # None )
         => probe.out[1].calls = <<[prim |-> "press_key", arg |-> NamedKey(low)[1]]>>

\* The counters of the tracker.
Counters ==
  {"moondream_query_calls", "moondream_point_calls", "moondream_reasoning_calls",
   "actions_performed", "successful_actions", "failed_actions",
   "auto_navigations", "moondream_detections", "uiautomator_detections"}

\* A step of the system: reset leaves a tracker as constructed; every other
\* operation leaves each counter where it was or higher.
C19_Step ==
  IF env'.resets_left < env.resets_left
  THEN /\ \A c \in Counters : stats'[c] = 0
       /\ stats'.start_time = "unset" /\ stats'.end_time = "unset"
  ELSE \A c \in Counters : stats'[c] >= stats[c]

\* C19: every statistics counter is non-decreasing under every operation of
\* a run (and under query_screen); the only operation that lowers a counter
\* is reset, which sets every counter to zero and clears the start and end
\* marks.
C19_CountersMonotone == [][C19_Step]_vars

\* C19 witness: a run recorded actions and set both marks, then reset
\* cleared the tracker.
C19_Witness ==
  /\ env.resets_left < SessionResets
  /\ stats = InitStats
  /\ \E r \in Finished :
       /\ run[r].result # None
       /\ run[r].result[1].statistics.total > 0

\* The fields of a statistics snapshot.
SummaryFields ==
  {"total", "successful", "failed", "moondream_query", "moondream_point",
   "moondream_reasoning", "api_total", "detections", "auto_navigations"}

\* reset has not been called on the agent's tracker.
NeverReset == env.resets_left = SessionResets

\* C20: run_test_case never resets the tracker: as long as reset is not
\* called, a later run of the caller starts from counters at least those of
\* the earlier run's result (query_screen calls between the runs included),
\* never lowers them, and returns statistics at least those of the earlier
\* result: a snapshot is cumulative over the agent's lifetime.
C20_StatisticsCumulative ==
  \A r \in Started :
    LET rec == run[r]
    IN  (NeverReset /\ rec.prev # None) =>
          \A f \in SummaryFields :
            /\ rec.stats0[f] >= rec.prev[1][f]
            /\ Summary(stats)[f] >= rec.stats0[f]
            /\ (rec.pc = "done" /\ rec.result # None) =>
                 rec.result[1].statistics[f] >= rec.prev[1][f]

\* C20 witness: the second run's result counts the first run's action and
\* the query_screen call made between the runs: more actions than the run
\* had steps, and a query call although the run asked for no navigation.
C20_Witness ==
  \E r \in Finished :
    LET rec == run[r]
    IN  /\ NeverReset /\ rec.prev # None /\ rec.result # None
        /\ rec.prev[1].total > 0
        /\ rec.stats0.moondream_query > rec.prev[1].moondream_query
        /\ rec.result[1].statistics.total > Len(rec.steps)
        /\ rec.result[1].statistics.total > rec.prev[1].total
        /\ rec.result[1].statistics.moondream_query = rec.stats0.moondream_query

\* C21: the step classifier of _execute_step and the dispatcher agree: a
\* step treated as non-visual (it contains "scroll", "swipe", "back", "home"
\* or "wait"), which is dispatched without coordinates, goes to a scroll,
\* key-press or wait primitive, never to the typing branch and never to the
\* default tap branch.
C21_ClassifierAgreesWithDispatcher ==
  (Dispatched /\ IsNonVisual(probe.in.step) /\ probe.in.coords = None)
  => LET low   == Lower(probe.in.step)
         calls == probe.out[1].calls
     IN  /\ ~TypingGroup(low)
         /\ ~Unmatched(low)
         /\ Len(calls) = 1
         /\ calls[1].prim \in {"scroll", "press_key", "wait"}

\* A suggestion of the form "click <element>" that names no other command.
ClickSuggestion(action) ==
  /\ Contains("click", action)
  /\ ~AnyIn({"type", "input", "enter", "scroll", "swipe", "press", "back", "wait"},
            action)

\* A click suggestion waiting for its dispatch has been counted as a
\* navigation, and its dispatch reaches no primitive.
C22_Counted ==
  \A r \in Started :
    LET rec == run[r]
    IN  (rec.pc = "nav_dispatch" /\ ClickSuggestion(rec.action[1])) =>
          /\ stats.auto_navigations = rec.stats0.auto_navigations + rec.n_navd + 1
          /\ Invoked(Dispatch(rec.action[1], None)) = <<>>
          /\ DeviceResults(Dispatch(rec.action[1], None)) = {FALSE}

\* The dispatch of a click suggestion leaves the screenshot and the counters
\* as they are, captures nothing and goes on to the next locate call; a
\* locate attempt reads the screenshot as it is.
C22_Step ==
  \A r \in RunIds :
    /\ ( /\ run[r].pc = "nav_dispatch" /\ run'[r] # run[r]
         /\ ClickSuggestion(run[r].action[1]) )
       => /\ shot' = shot
          /\ stats' = stats
          /\ run'[r].n_capture = run[r].n_capture
          /\ run'[r].dev_ok = run[r].dev_ok
          /\ run'[r].pc = "locate"
          /\ run'[r].attempt = run[r].attempt + 1
    /\ (run[r].pc = "locate" /\ run'[r] # run[r])
       => run'[r].seen = shot /\ shot' = shot

\* C22: a navigation suggestion of the form "click <element>" is dispatched
\* without coordinates and produces no tap: perform_action returns failure,
\* the navigation counter has been incremented all the same, the screenshot
\* is not recaptured, and the next locate attempt reads the unchanged
\* screenshot.
C22_ClickSuggestionNeverTaps == []C22_Counted /\ [][C22_Step]_vars

\* C22 witness: the second locate call of a step has read the screenshot of
\* the step's one capture, which no primitive has acted on, after one
\* navigation ("click settings") was counted and dispatched.
C22_Witness ==
  \E r \in Started :
    /\ run[r].pc = "locate_ret"
    /\ run[r].attempt = 1
    /\ run[r].n_navd = 1
    /\ run[r].n_capture = 1
    /\ run[r].seen = [by |-> r, fresh |-> TRUE]
    /\ stats.auto_navigations = run[r].stats0.auto_navigations + 1

\* The replies agree as far as both runs got.
SameReplies(a, b) ==
  \A i \in 1..(IF Len(a) < Len(b) THEN Len(a) ELSE Len(b)) : a[i] = b[i]

\* The run and the caller's previous run were given the same steps with
\* different values of execute, and their collaborators answered alike.
Twins(rec) ==
  /\ rec.pc = "done" /\ rec.result # None /\ rec.twin # None
  /\ rec.twin[1].test_json.steps = rec.test_json.steps
  /\ rec.twin[1].test_json.execute # rec.test_json.execute
  /\ SameReplies(rec.twin[1].replies, rec.replies)

\* C23: the execute flag of a test case has no effect: for the same steps
\* and the same collaborator outcomes, a run with execute = false issues
\* the same sequence of vision calls and device actions and returns the
\* same result (the statistics as counts of the run) as a run with
\* execute = true.
C23_ExecuteHasNoEffect ==
  \A r \in Started :
    LET rec == run[r]
    IN  Twins(rec) =>
          /\ rec.calls = rec.twin[1].calls
          /\ rec.replies = rec.twin[1].replies
          /\ [rec.result[1] EXCEPT !.statistics = OwnCounts(rec)] = rec.twin[1].result

\* C23 witness: a run with execute = false after a run with execute = true
\* of the same visual step, both with a locate call that found nothing, a
\* navigation query, a navigation and a device action, and both successful.
C23_Witness ==
  \E r \in Started :
    /\ Twins(run[r])
    /\ ~run[r].test_json.execute
    /\ run[r].steps = <<"click search icon">>
    /\ Len(run[r].calls) >= 6
    /\ run[r].calls = run[r].twin[1].calls
    /\ run[r].result[1].status = "success"
    /\ run[r].result[1].statistics.total = 2

====
